---- MODULE Spec2Model ----
(***************************************************************************)
(* searchine: the document registry (index/src/collection/mod.rs) and the  *)
(* frequency postings list (fingertips/src/postings/freq.rs).              *)
(*                                                                         *)
(* Encoding conventions                                                    *)
(*   Option<T>      a set with at most one element: {} is None, {x} is     *)
(*                  Some(x).  An iterator search (`find`) over a hash set  *)
(*                  is the set of elements it may return.                  *)
(*   io::Result<T>  a record [tag |-> "Ok", val |-> x] or [tag |-> "Err"]. *)
(*   PathBuf        a sequence of code units, all valid UTF-8 (a path that *)
(*                  is not valid UTF-8 is outside the model); <<>> is the  *)
(*                  empty path PathBuf::new().                             *)
(*   SystemTime     whole seconds relative to UNIX_EPOCH (negative: before *)
(*                  the epoch).                                            *)
(***************************************************************************)
EXTENDS Integers, FiniteSets, Sequences, TLC

\* ------------------------------------------------------------------ bounds
NumPaths == 3
MaxTime == 0
MaxLen == 2
MaxDocId == 2
MaxFreq == 2
MaxFreed == 3

\* ------------------------------------------------------------------ inputs
Paths == {<<n>> : n \in 1..NumPaths}
Times == (-1)..MaxTime
\* the outcome of `document_path.metadata()?.modified()?`: {} is the I/O error
Metadata == {{}} \cup {{t} : t \in Times}
PathSeqs == UNION {[1..n -> Paths \X Metadata] : n \in 0..MaxLen}
DocIds == 0..MaxDocId
Freqs == 1..MaxFreq

VARIABLES
    collection,   \* the Collection the session owns
    order,        \* history: paths in the order they were stored, kept until a remove
    removed,      \* history: TRUE once a remove deleted an entry
    freed,        \* history: <<path, document_id>> of every removed entry
    file,         \* the persisted registry file
    written,      \* history: Some(collection the last write_to_file wrote out)
    postings,     \* the FrequencyPostingsList's HashSet
    present,      \* history: doc ids whose most recent add/remove was an add
    call,         \* the operation performed last and its arguments
    ret           \* what it returned

vars == <<collection, order, removed, freed, file, written, postings, present, call, ret>>

\* ------------------------------------------------------- CollectionEntry
CollectionEntry_new(document_id, modified) ==
    [document_id |-> document_id, modified |-> modified]

\* ------------------------------------------------------------ HashMap
EmptyMap == [k \in {} |-> 0]

contains_key(map, k) == k \in DOMAIN map

\* HashMap::insert: stores v under k, replacing a value already there
HashMap_insert(map, k, v) ==
    [x \in (DOMAIN map) \cup {k} |-> IF x = k THEN v ELSE map[x]]

HashMap_remove(map, k) ==
    [x \in (DOMAIN map) \ {k} |-> map[x]]

HashMap_get(map, k) ==
    IF k \in DOMAIN map THEN {map[k]} ELSE {}

\* ------------------------------------------------------------ Collection
Default ==
    [root_dir |-> <<>>, index |-> EmptyMap]

\* mutant: ids counted from one
next_id_len_from_one(self) ==
    Cardinality(DOMAIN self.index) + 1

\* `self.index.len() as u32`: the cast truncates at 2^32 entries only, far
\* above any number of paths a session of the model stores
next_id_len(self) ==
    Cardinality(DOMAIN self.index)

\* mutant: a known path has its modified time refreshed
insert_refresh(self, document_path, meta) ==
    IF meta = {}
    THEN [tag |-> IF contains_key(self.index, document_path) THEN "Ok" ELSE "Err",
          self |-> self]
    ELSE LET modified == CHOOSE t \in meta : TRUE
             next_id == IF contains_key(self.index, document_path)
                        THEN self.index[document_path].document_id
                        ELSE Cardinality(DOMAIN self.index)
             entry == CollectionEntry_new(next_id, modified)
         IN  [tag |-> "Ok",
              self |-> [self EXCEPT !.index = HashMap_insert(@, document_path, entry)]]

\* Collection::insert; `meta` is what reading the modification time yields
insert(self, document_path, meta) ==
    IF ~contains_key(self.index, document_path)
    THEN IF meta = {}
         THEN [tag |-> "Err", self |-> self]
         ELSE LET modified == CHOOSE t \in meta : TRUE
                  next_id == next_id_len(self)
                  entry == CollectionEntry_new(next_id, modified)
              IN  [tag |-> "Ok",
                   self |-> [self EXCEPT !.index = HashMap_insert(@, document_path, entry)]]
    ELSE [tag |-> "Ok", self |-> self]

\* mutant: a path that cannot be read is skipped
RECURSIVE from_paths_loop_skip(_, _, _)
from_paths_loop_skip(index, iter, i) ==
    IF i > Len(iter)
    THEN [tag |-> "Ok", val |-> index]
    ELSE from_paths_loop_skip(insert(index, iter[i][1], iter[i][2]).self, iter, i + 1)

\* Collection::from_paths over iter[i..]: the `?` returns at the first error
RECURSIVE from_paths_loop(_, _, _)
from_paths_loop(index, iter, i) ==
    IF i > Len(iter)
    THEN [tag |-> "Ok", val |-> index]
    ELSE LET r == insert(index, iter[i][1], iter[i][2])
         IN  IF r.tag = "Err"
             THEN [tag |-> "Err"]
             ELSE from_paths_loop(r.self, iter, i + 1)

from_paths(iter) ==
    from_paths_loop(Default, iter, 1)

contains_path(self, document_path) ==
    contains_key(self.index, document_path)

get_document_id(self, document_path) ==
    {e.document_id : e \in HashMap_get(self.index, document_path)}

get_last_modified(self, document_path) ==
    {e.modified : e \in HashMap_get(self.index, document_path)}

get_modified(self, document_path) ==
    {e.modified : e \in HashMap_get(self.index, document_path)}

\* mutant: the entry is looked up, not taken out
remove_peek(self, document_path) ==
    [val |-> HashMap_get(self.index, document_path), self |-> self]

\* Collection::remove: the removed entry and the collection afterwards
remove(self, document_path) ==
    [val |-> HashMap_get(self.index, document_path),
     self |-> [self EXCEPT !.index = HashMap_remove(@, document_path)]]

\* ------------------------------------------------------ registry actions
Insert(document_path, meta) ==
    LET r == insert(collection, document_path, meta)
    IN  /\ collection' = r.self
        /\ call' = [op |-> "insert", path |-> document_path, meta |-> meta]
        /\ ret' = [tag |-> r.tag]

Remove(document_path) ==
    LET r == remove(collection, document_path)
    IN  /\ collection' = r.self
        /\ call' = [op |-> "remove", path |-> document_path]
        /\ ret' = [val |-> r.val]

\* from_paths is a constructor: it is the session's first step, and on an
\* error no Collection comes back (the session keeps none).
Constructing ==
    /\ collection = Default
    /\ call.op = "default"

FromPaths(iter) ==
    LET r == from_paths(iter)
    IN  /\ Constructing
        /\ call' = [op |-> "from_paths", iter |-> iter]
        /\ ret' = r
        /\ collection' = IF r.tag = "Ok" THEN r.val ELSE collection

\* a failed from_paths leaves the caller without a Collection to work on
Usable ==
    IF call.op = "from_paths" THEN ret.tag = "Ok" ELSE TRUE

\* ------------------------------------------------------------ persistence
\* serde's Serialize for SystemTime: the duration since UNIX_EPOCH as
\* {secs_since_epoch, nanos_since_epoch}; a time before the epoch is an error
serialize_SystemTime(t) ==
    IF t < 0
    THEN [tag |-> "Err"]
    ELSE [tag |-> "Ok", val |-> [secs_since_epoch |-> t, nanos_since_epoch |-> 0]]

\* serde's Deserialize for SystemTime: UNIX_EPOCH + Duration(secs, nanos)
deserialize_SystemTime(j) ==
    0 + j.secs_since_epoch

\* serde's Serialize for PathBuf: the path as a string (an error for a path
\* that is not valid UTF-8, which the model's paths never are)
serialize_PathBuf(path) ==
    [str |-> path]

deserialize_PathBuf(j) ==
    j.str

\* #[derive(Serialize)] for CollectionEntry (the time is known to serialize)
serialize_CollectionEntry(e) ==
    [document_id |-> e.document_id,
     modified |-> serialize_SystemTime(e.modified).val]

deserialize_CollectionEntry(j) ==
    CollectionEntry_new(j.document_id, deserialize_SystemTime(j.modified))

\* #[derive(Serialize)] for Collection, as serde_json::to_writer runs it: the
\* first field that fails to serialize ends the output with an error
serialize_Collection(self) ==
    IF \E p \in DOMAIN self.index : serialize_SystemTime(self.index[p].modified).tag = "Err"
    THEN [tag |-> "Err"]
    ELSE [tag |-> "Ok",
          val |-> [root_dir |-> serialize_PathBuf(self.root_dir),
                   index |-> [k \in {serialize_PathBuf(p) : p \in DOMAIN self.index} |->
                                serialize_CollectionEntry(self.index[deserialize_PathBuf(k)])]]]

deserialize_Collection(j) ==
    [root_dir |-> deserialize_PathBuf(j.root_dir),
     index |-> [p \in {deserialize_PathBuf(k) : k \in DOMAIN j.index} |->
                  deserialize_CollectionEntry(j.index[serialize_PathBuf(p)])]]

\* Collection::write_to_file: the Result and the file afterwards. File::create
\* truncates the file before anything is written; what a failed serialization
\* leaves behind is the beginning of a JSON document.
write_to_file(self, f, can_create) ==
    IF ~can_create
    THEN [tag |-> "Err", file |-> f]
    ELSE LET j == serialize_Collection(self)
         IN  IF j.tag = "Err"
             THEN [tag |-> "Err", file |-> [kind |-> "truncated"]]
             ELSE [tag |-> "Ok", file |-> [kind |-> "json", doc |-> j.val]]

\* Collection::from_file
from_file(f) ==
    IF f.kind = "json"
    THEN [tag |-> "Ok", val |-> deserialize_Collection(f.doc)]
    ELSE [tag |-> "Err"]

\* the document ids a collection's entries carry
document_ids(c) ==
    {c.index[p].document_id : p \in DOMAIN c.index}

\* mutant: the map is keyed one past the document id
collect_inverted_shifted(c) ==
    {[k \in {i + 1 : i \in document_ids(c)} |-> inner[k - 1]] :
        inner \in {f \in [document_ids(c) -> DOMAIN c.index] :
                      \A i \in document_ids(c) : c.index[f[i]].document_id = i}}

\* collect::<HashMap<u32, PathBuf>>() over index.iter(): of the pairs with the
\* same document id the one iterated last stays, and the iteration order of a
\* HashMap is unspecified: every choice of one path per id is a possible map
collect_inverted(c) ==
    {inner \in [document_ids(c) -> DOMAIN c.index] :
        \A i \in document_ids(c) : c.index[inner[i]].document_id = i}

\* InvertedCollection::get_path
get_path(self, doc_id) ==
    HashMap_get(self.inner, doc_id)

WriteToFile(can_create) ==
    LET r == write_to_file(collection, file, can_create)
    IN  /\ Usable
        /\ file' = r.file
        /\ written' = IF can_create THEN {collection} ELSE written
        /\ call' = [op |-> "write_to_file", can_create |-> can_create]
        /\ ret' = [tag |-> r.tag]
        /\ UNCHANGED collection

FromFile ==
    /\ call' = [op |-> "from_file"]
    /\ ret' = from_file(file)
    /\ UNCHANGED <<collection, file, written>>

\* InvertedCollection::from_file
InvertedFromFile ==
    LET r == from_file(file)
    IN  /\ call' = [op |-> "inverted_from_file"]
        /\ IF r.tag = "Err"
           THEN ret' = [tag |-> "Err"]
           ELSE \E inner \in collect_inverted(r.val) :
                    ret' = [tag |-> "Ok", val |-> [inner |-> inner]]
        /\ UNCHANGED <<collection, file, written>>

\* the session persists after it has indexed: the registry operations come
\* before the first persistence call
Indexing ==
    call.op \in {"default", "insert", "remove", "from_paths"}

\* --------------------------------------------------- FrequencyPostingsList
FrequencyPosting_new(doc_id, frequency) ==
    [doc_id |-> doc_id, frequency |-> frequency]

\* mutant: equality as #[derive(PartialEq)] would give it
FrequencyPosting_eq_derived(a, b) ==
    a = b

\* impl PartialEq for FrequencyPosting (Hash agrees with it)
FrequencyPosting_eq(a, b) ==
    a.doc_id = b.doc_id

\* HashSet::insert: a value equal to one already in the set is dropped
HashSet_insert(set, value) ==
    IF \E e \in set : FrequencyPosting_eq(e, value)
    THEN set
    ELSE set \cup {value}

FrequencyPostingsList_new == {}

add(self, posting) ==
    HashSet_insert(self, posting)

\* mutant: retain keeps the postings it should drop
PostingsList_remove_flipped(self, doc_id) ==
    {posting \in self : posting.doc_id = doc_id}

PostingsList_remove(self, doc_id) ==
    {posting \in self : posting.doc_id # doc_id}

\* iter().find(..): None, or any stored posting with this doc_id
get(self, doc_id) ==
    {posting \in self : posting.doc_id = doc_id}

len(self) ==
    Cardinality(self)

Add(doc_id, frequency) ==
    /\ postings' = add(postings, FrequencyPosting_new(doc_id, frequency))
    /\ present' = present \cup {doc_id}
    /\ call' = [op |-> "add", doc_id |-> doc_id, frequency |-> frequency]
    /\ ret' = [tag |-> "Ok"]

PostingsRemove(doc_id) ==
    /\ postings' = PostingsList_remove(postings, doc_id)
    /\ present' = present \ {doc_id}
    /\ call' = [op |-> "postings_remove", doc_id |-> doc_id]
    /\ ret' = [tag |-> "Ok"]

\* ------------------------------------------------------ history updates
\* the order in which from_paths stored paths (first occurrences)
RECURSIVE FirstOccurrences(_, _)
FirstOccurrences(iter, i) ==
    IF i > Len(iter) THEN <<>>
    ELSE IF \E j \in 1..(i - 1) : iter[j][1] = iter[i][1]
         THEN FirstOccurrences(iter, i + 1)
         ELSE <<iter[i][1]>> \o FirstOccurrences(iter, i + 1)

\* order/removed: the insertions of a session that has removed nothing
TrackOrder ==
    /\ removed' = (removed \/ (call'.op = "remove" /\ collection' # collection))
    /\ order' = IF removed' THEN <<>>
                ELSE IF call'.op = "insert" /\ collection' # collection
                     THEN Append(order, call'.path)
                ELSE IF call'.op = "from_paths" /\ collection' # collection
                     THEN FirstOccurrences(call'.iter, 1)
                ELSE order

\* freed: which path gave up which document id
TrackFreed ==
    freed' = IF call'.op = "remove"
             THEN freed \cup {<<call'.path, e.document_id>> : e \in ret'.val}
             ELSE freed

Init ==
    /\ collection = Default
    /\ order = <<>>
    /\ removed = FALSE
    /\ freed = {}
    /\ file = [kind |-> "missing"]
    /\ written = {}
    /\ postings = FrequencyPostingsList_new
    /\ present = {}
    /\ call = [op |-> "default"]
    /\ ret = [tag |-> "Ok"]

\* ---------------------------------------------------------- specifications
\* the registry under insert / remove / from_paths
Next ==
    \/ \E p \in Paths, m \in Metadata :
          /\ Usable /\ Insert(p, m) /\ TrackOrder
          /\ UNCHANGED <<freed, file, written, postings, present>>
    \/ \E p \in Paths :
          /\ Usable /\ Remove(p) /\ TrackOrder
          /\ UNCHANGED <<freed, file, written, postings, present>>
    \/ Constructing /\ \E iter \in PathSeqs :
          /\ FromPaths(iter) /\ TrackOrder
          /\ UNCHANGED <<freed, file, written, postings, present>>

Spec == Init /\ [][Next]_vars

\* the registry, remembering the ids that removals freed
NextFreed ==
    \/ \E p \in Paths, m \in Metadata :
          /\ Usable /\ Insert(p, m) /\ TrackFreed
          /\ UNCHANGED <<order, removed, file, written, postings, present>>
    \/ \E p \in Paths :
          /\ Usable /\ Remove(p) /\ TrackFreed
          /\ Cardinality(freed') <= MaxFreed
          /\ UNCHANGED <<order, removed, file, written, postings, present>>
    \/ Constructing /\ \E iter \in PathSeqs :
          /\ FromPaths(iter) /\ TrackFreed
          /\ UNCHANGED <<order, removed, file, written, postings, present>>

SpecFreed == Init /\ [][NextFreed]_vars

\* the registry built, then persisted and loaded back
NextPersist ==
    \/ \E p \in Paths, m \in Metadata :
          /\ Indexing /\ Usable /\ Insert(p, m)
          /\ UNCHANGED <<file, written, order, removed, freed, postings, present>>
    \/ \E p \in Paths :
          /\ Indexing /\ Usable /\ Remove(p)
          /\ UNCHANGED <<file, written, order, removed, freed, postings, present>>
    \/ Constructing /\ \E iter \in PathSeqs :
          /\ FromPaths(iter)
          /\ UNCHANGED <<file, written, order, removed, freed, postings, present>>
    \/ \E can_create \in BOOLEAN :
          /\ WriteToFile(can_create)
          /\ UNCHANGED <<order, removed, freed, postings, present>>
    \/ FromFile /\ UNCHANGED <<order, removed, freed, postings, present>>
    \/ InvertedFromFile /\ UNCHANGED <<order, removed, freed, postings, present>>

SpecPersist == Init /\ [][NextPersist]_vars

\* one FrequencyPostingsList under add / remove
NextPostings ==
    \/ \E d \in DocIds, f \in Freqs :
          /\ Add(d, f)
          /\ UNCHANGED <<collection, order, removed, freed, file, written>>
    \/ \E d \in DocIds :
          /\ PostingsRemove(d)
          /\ UNCHANGED <<collection, order, removed, freed, file, written>>

SpecPostings == Init /\ [][NextPostings]_vars

\* ------------------------------------------------------------------ claims
Entries(c, p) == HashMap_get(c.index, p)

\* C1: in every registry reachable by insert and remove, no two distinct
\* paths carry the same document_id.
C1_UniqueDocumentIds ==
    \A p, q \in DOMAIN collection.index :
        p # q => collection.index[p].document_id # collection.index[q].document_id

\* C2: while nothing has been removed, the i-th path stored (counting from 0,
\* by insert or by from_paths in iteration order) has document_id i, the ids
\* in use are exactly 0..n-1, and get_document_id returns each path's id.
C2_IdsInInsertionOrder ==
    ~removed =>
        /\ DOMAIN collection.index = {order[i] : i \in 1..Len(order)}
        /\ \A i \in 1..Len(order) : get_document_id(collection, order[i]) = {i - 1}
        /\ document_ids(collection) = 0..(Len(order) - 1)
        /\ \A p \in Paths : contains_path(collection, p) \/ get_document_id(collection, p) = {}

C2_Witness ==
    /\ ~removed
    /\ Len(order) = 3
    /\ call.op = "insert"

\* C3: insert of a path already in the index returns Ok and leaves the whole
\* registry as it was (id and stored modified time of every path), whatever
\* the file's modification time is now.
C3_InsertKnownIsNoOp ==
    [][(call'.op = "insert" /\ contains_path(collection, call'.path)) =>
          /\ ret'.tag = "Ok"
          /\ collection' = collection
          /\ \A p \in Paths :
                /\ get_document_id(collection', p) = get_document_id(collection, p)
                /\ get_last_modified(collection', p) = get_last_modified(collection, p)]_vars

\* a known path was inserted again while its file carried another time
C3_Witness ==
    /\ call.op = "insert"
    /\ ret.tag = "Ok"
    /\ contains_path(collection, call.path)
    /\ call.meta # {}
    /\ get_last_modified(collection, call.path) # call.meta
    /\ Cardinality(DOMAIN collection.index) >= 2

\* C4: once a path with document_id k has been removed, no later insert of a
\* different path that was never known before is given document_id k.
C4_FreedIdNotReused ==
    [][(/\ call'.op = "insert"
        /\ collection' # collection
        /\ \A f \in freed : f[1] # call'.path) =>
          \A f \in freed : f[2] \notin get_document_id(collection', call'.path)]_vars

\* C5: remove of a known path returns the entry that was stored, after which
\* the path is unknown to every lookup and every other path keeps its entry;
\* remove of an unknown path returns None and changes nothing.
C5_RemoveFrame ==
    [][call'.op = "remove" =>
          /\ ret'.val = Entries(collection, call'.path)
          /\ contains_path(collection, call'.path) => ret'.val # {}
          /\ ~contains_path(collection', call'.path)
          /\ get_document_id(collection', call'.path) = {}
          /\ get_last_modified(collection', call'.path) = {}
          /\ get_modified(collection', call'.path) = {}
          /\ \A q \in Paths \ {call'.path} : Entries(collection', q) = Entries(collection, q)
          /\ collection'.root_dir = collection.root_dir
          /\ ~contains_path(collection, call'.path) =>
                (ret'.val = {} /\ collection' = collection)]_vars

C5_Witness ==
    /\ call.op = "remove"
    /\ ret.val # {}
    /\ Cardinality(DOMAIN collection.index) >= 2

\* C6: add of a posting whose document id is already in the list changes
\* nothing: len() is the same and get(doc_id) still has the frequency that was
\* stored first.
C6_AddExistingIsNoOp ==
    [][(call'.op = "add" /\ get(postings, call'.doc_id) # {}) =>
          /\ len(postings') = len(postings)
          /\ get(postings', call'.doc_id) = get(postings, call'.doc_id)
          /\ postings' = postings]_vars

\* a document id was added again with another frequency
C6_Witness ==
    /\ call.op = "add"
    /\ len(postings) = 1
    /\ \E p \in get(postings, call.doc_id) : p.frequency # call.frequency

\* C7: the list is a set of document ids: get(d) is present exactly for the
\* ids whose latest operation was an add, no two postings share an id, len()
\* counts those ids, and remove(id) lowers len() by one if id was present
\* and by nothing otherwise, leaving the postings of other ids alone.
C7_SetOfDocumentIds ==
    /\ [](/\ \A d \in DocIds : (get(postings, d) # {}) <=> (d \in present)
          /\ \A a, b \in postings : a.doc_id = b.doc_id => a = b
          /\ \A d \in DocIds : Cardinality(get(postings, d)) <= 1
          /\ len(postings) = Cardinality(present))
    /\ [][call'.op = "postings_remove" =>
            /\ get(postings', call'.doc_id) = {}
            /\ len(postings') =
                 len(postings) - (IF get(postings, call'.doc_id) # {} THEN 1 ELSE 0)
            /\ \A d \in DocIds \ {call'.doc_id} : get(postings', d) = get(postings, d)]_vars
    /\ [][call'.op = "add" => get(postings', call'.doc_id) # {}]_vars

C7_Witness ==
    /\ call.op = "postings_remove"
    /\ len(postings) = 2
    /\ Cardinality(present) = 2
    /\ get(postings, call.doc_id) = {}

\* C8: an InvertedCollection loaded from a persisted registry whose document
\* ids are unique is that registry's inverse: get_path(i) is p exactly when
\* the registry's get_document_id(p) is i, and get_path(i) is None for an id
\* no path carries.
C8_InvertedIsInverse ==
    (/\ call.op = "inverted_from_file"
     /\ ret.tag = "Ok"
     /\ \A w \in written : \A p, q \in DOMAIN w.index :
            p # q => w.index[p].document_id # w.index[q].document_id) =>
        \A w \in written :
            /\ \A i \in 0..(NumPaths + 1), p \in Paths :
                   (get_path(ret.val, i) = {p}) <=> (get_document_id(w, p) = {i})
            /\ \A i \in 0..(NumPaths + 1) :
                   i \notin document_ids(w) => get_path(ret.val, i) = {}

C8_Witness ==
    /\ call.op = "inverted_from_file"
    /\ ret.tag = "Ok"
    /\ \A w \in written : document_ids(w) = {0, 1, 2}
    /\ written # {}

\* C9 as stated: whatever registry insert and remove have built, write_to_file
\* followed by from_file gives back a registry with the same root_dir and the
\* same path -> (document_id, modified), and write_to_file leaves the
\* registry it wrote unchanged.
C9_RoundTripAny ==
    /\ (call.op = "write_to_file" /\ call.can_create) => written = {collection}
    /\ (call.op = "from_file" /\ written # {}) =>
           /\ ret.tag = "Ok"
           /\ \A w \in written :
                 /\ ret.val.root_dir = w.root_dir
                 /\ ret.val.index = w.index

\* What does hold of the round trip: it succeeds for a registry all of whose
\* modified times are at or after UNIX_EPOCH; with a time before the epoch in
\* it write_to_file, once it has created the file, returns an error and the
\* file it leaves does not load.  Either way write_to_file leaves the registry
\* unchanged.
RoundTripSinceEpoch ==
    /\ (call.op = "write_to_file" /\ call.can_create) =>
           /\ written = {collection}
           /\ (ret.tag = "Ok") <=>
                 (\A p \in DOMAIN collection.index : collection.index[p].modified >= 0)
    /\ (call.op = "from_file" /\ written # {}) =>
           \A w \in written :
               IF \A p \in DOMAIN w.index : w.index[p].modified >= 0
               THEN /\ ret.tag = "Ok"
                    /\ ret.val.root_dir = w.root_dir
                    /\ ret.val.index = w.index
               ELSE ret.tag = "Err"

RoundTripSinceEpoch_Witness ==
    /\ call.op = "from_file"
    /\ ret.tag = "Ok"
    /\ \E w \in written : Cardinality(DOMAIN w.index) = 2

\* the first-stored occurrences in iter whose modification time cannot be read
Unreadable(iter) ==
    {i \in 1..Len(iter) :
        /\ iter[i][2] = {}
        /\ \A j \in 1..(i - 1) : iter[j][1] # iter[i][1]}

\* C10: insert of an unknown path whose modification time cannot be read
\* returns an error and leaves the registry unchanged (the path stays
\* unknown, the next id is the same, no entry changes); from_paths over a
\* sequence holding such a path returns the error and no registry.
C10_UnreadableInsertFails ==
    /\ [][(/\ call'.op = "insert"
           /\ ~contains_path(collection, call'.path)
           /\ call'.meta = {}) =>
             /\ ret'.tag = "Err"
             /\ collection' = collection
             /\ ~contains_path(collection', call'.path)
             /\ next_id_len(collection') = next_id_len(collection)]_vars
    /\ [][call'.op = "from_paths" =>
             IF Unreadable(call'.iter) # {}
             THEN ret' = [tag |-> "Err"] /\ collection' = collection
             ELSE ret'.tag = "Ok" /\ collection' = ret'.val]_vars

C10_Witness ==
    /\ call.op = "insert"
    /\ ret.tag = "Err"
    /\ Cardinality(DOMAIN collection.index) >= 1

====
